---- MODULE Spec2Model ----
(***************************************************************************)
(* Model of src/app.py, the options open-interest dashboard.               *)
(*                                                                         *)
(* Two specifications share the operators that model fetch_data:           *)
(*   SpecAgg  the filtering and merge of fetch_data (lines 262-296) as a   *)
(*            function of its inputs, drawn from bounded sets;             *)
(*   Spec     the script as Streamlit runs it: one run of the script per   *)
(*            user interaction, with st.session_state kept between runs.   *)
(*                                                                         *)
(* Prices and strikes are floats in the program.  The model counts them in *)
(* half dollars, so that a strike of 3 is $1.50: halves are exact in       *)
(* binary floating point, and so is Python's % on them.  The range and the *)
(* step are whole dollars, as the slider and line 193 make them.           *)
(***************************************************************************)
EXTENDS Integers, Sequences, FiniteSets, TLC

VARIABLES
    session_state,      \* st.session_state: merged, spot, ticker, last_params
    ticker,             \* st.text_input of this run
    expiration,         \* st.date_input of this run
    range_above_below,  \* st.slider of this run
    fetch_button,       \* st.button of this run
    current_params,     \* the module global of line 324, Unbound before it
    pc,                 \* the script's position
    fetch_calls,        \* history: invocations of fetch_data in this run
    last_fetch,         \* history: arguments of the latest invocation
    merged_src,         \* history: ticker and spot of the cycle that stored merged
    cycle,              \* history: the fetch cycle that has just ended
    agg_in,             \* SpecAgg: the inputs of the aggregation
    agg_out             \* SpecAgg: its result

vars == <<session_state, ticker, expiration, range_above_below, fetch_button,
          current_params, pc, fetch_calls, last_fetch, merged_src, cycle,
          agg_in, agg_out>>

-----------------------------------------------------------------------------
(* Bounds and sample values *)

MaxRows == 2
MaxStrike == 4

Strikes == 0..MaxStrike
Spots == {1, 3}
Ranges == {0, 1}
Steps == {1, 2}
AggSpots == {1, 2, 3}

Tickers == {"SPY", "QQQ"}
Expirations == {"d1", "d2"}

(* Python's None, and a value that is not None *)
None == <<>>
Some(x) == <<x>>

-----------------------------------------------------------------------------
(* Option rows.  Row i of the calls table carries the open interest 2i-1   *)
(* and row j of the puts table 2j, so that every count in the output names *)
(* the input row it was copied from.                                       *)

OptionRow(k, oi, price) == [strike |-> k, openInterest |-> oi, lastPrice |-> price]

CallsOf(ks) == [i \in 1..Len(ks) |-> OptionRow(ks[i], 2 * i - 1, i)]
PutsOf(ks) == [i \in 1..Len(ks) |-> OptionRow(ks[i], 2 * i, i)]

StrikeSeqs == UNION {[1..n -> Strikes] : n \in 1..MaxRows}

StrikesOf(rows) == {rows[i].strike : i \in 1..Len(rows)}

-----------------------------------------------------------------------------
(* fetch_data, lines 262-296: window, step filter, outer join *)

PyMax(a, b) == IF a >= b THEN a ELSE b

min_strike(spot, range) == PyMax(0, spot - 2 * range)
max_strike(spot, range) == spot + 2 * range

(* WindowFilter with the upper end of the window left out *)
WindowFilterOpenEnd(rows, lo, hi) ==
    SelectSeq(rows, LAMBDA r : r.strike >= lo /\ r.strike < hi)

WindowFilter(rows, lo, hi) ==
    SelectSeq(rows, LAMBDA r : r.strike >= lo /\ r.strike <= hi)

StepFilter(rows, st) ==
    SelectSeq(rows, LAMBDA r : r.strike % (2 * st) = 0)

RECURSIVE SortedKeys(_)
SortedKeys(S) ==
    IF S = {} THEN <<>>
    ELSE LET m == CHOOSE x \in S : \A y \in S : x <= y
         IN  <<m>> \o SortedKeys(S \ {m})

(* MergedRow with the delta taken the other way round *)
MergedRowPutMinusCall(k, c, p) ==
    LET coi == IF c = None THEN 0 ELSE c[1].openInterest
        poi == IF p = None THEN 0 ELSE p[1].openInterest
    IN  [strike |-> k,
         call_oi |-> coi,
         call_price |-> IF c = None THEN 0 ELSE c[1].lastPrice,
         put_oi |-> poi,
         put_price |-> IF p = None THEN 0 ELSE p[1].lastPrice,
         delta |-> poi - coi]

(* One row of the joined frame, after fillna(0), astype(int) and the delta *)
(* column.  A side that is absent is None, which the join leaves as NaN.   *)
MergedRow(k, c, p) ==
    LET coi == IF c = None THEN 0 ELSE c[1].openInterest
        poi == IF p = None THEN 0 ELSE p[1].openInterest
    IN  [strike |-> k,
         call_oi |-> coi,
         call_price |-> IF c = None THEN 0 ELSE c[1].lastPrice,
         put_oi |-> poi,
         put_price |-> IF p = None THEN 0 ELSE p[1].lastPrice,
         delta |-> coi - poi]

(* The rows pd.merge(how='outer') makes for one key: every pairing of the  *)
(* left rows with the right rows of that key, or the rows of the one side  *)
(* that has the key.                                                       *)
KeyRows(left, right, k) ==
    LET l == SelectSeq(left, LAMBDA r : r.strike = k)
        r == SelectSeq(right, LAMBDA q : q.strike = k)
    IN  IF r = <<>> THEN [i \in 1..Len(l) |-> MergedRow(k, Some(l[i]), None)]
        ELSE IF l = <<>> THEN [j \in 1..Len(r) |-> MergedRow(k, None, Some(r[j]))]
        ELSE [n \in 1..(Len(l) * Len(r)) |->
                MergedRow(k, Some(l[((n - 1) \div Len(r)) + 1]),
                             Some(r[((n - 1) % Len(r)) + 1]))]

RECURSIVE JoinKeys(_, _, _)
JoinKeys(left, right, keys) ==
    IF keys = <<>> THEN <<>>
    ELSE KeyRows(left, right, Head(keys)) \o JoinKeys(left, right, Tail(keys))

Merge(left, right) ==
    JoinKeys(left, right, SortedKeys(StrikesOf(left) \cup StrikesOf(right)))

(* Lines 280-296, from the window-filtered frames *)
MergeFiltered(calls_filtered, puts_filtered, st) ==
    Merge(StepFilter(calls_filtered, st), StepFilter(puts_filtered, st))

(* RangeWarning that needs both frames to be empty *)
RangeWarningBothEmpty(calls_filtered, puts_filtered) ==
    calls_filtered = <<>> /\ puts_filtered = <<>>

(* Line 277: the condition of the "Try increasing the range" warning *)
RangeWarning(calls_filtered, puts_filtered) ==
    calls_filtered = <<>> \/ puts_filtered = <<>>

Aggregate(calls, puts, spot, range, st) ==
    LET lo == min_strike(spot, range)
        hi == max_strike(spot, range)
    IN  MergeFiltered(WindowFilter(calls, lo, hi), WindowFilter(puts, lo, hi), st)

-----------------------------------------------------------------------------
(* fetch_data, lines 211-317 *)

Params(t, e, st, r) ==
    [ticker |-> t, expiration |-> e, step |-> st, range_above_below |-> r]

(* The module global current_params: bound by line 324, and not before it  *)
(* in a run, because every run executes the script in a fresh namespace.   *)
Unbound == <<>>

(* Places of fetch_data where a statement can raise.                       *)
InnerTry == {"merge", "store_merged", "store_spot", "store_ticker", "store_params"}
OuterTry == {"spot", "chain", "window", "inner_handler"} \cup InnerTry

(* Handler with the inner try next to the outer one, not inside it *)
HandlerNotNested(point) ==
    IF point \in InnerTry THEN "inner"
    ELSE IF point \in OuterTry \ {"inner_handler"} THEN "outer"
    ELSE "propagate"

(* The except clause that receives an exception raised at a place: the     *)
(* inner try of lines 284-313, the outer try of lines 213-317, or none.    *)
Handler(point) ==
    IF point \in InnerTry THEN "inner"
    ELSE IF point \in OuterTry THEN "outer"
    ELSE "propagate"

(* What a cycle leaves behind: the session state, how the cycle ended, the *)
(* place of the last exception raised in it ("" when none was), whether    *)
(* the range warning of line 278 was shown, and the rows it stored.        *)
Result(ss, outcome, at, warned, rows) ==
    [ss |-> ss, outcome |-> outcome, at |-> at, warned |-> warned, rows |-> rows]

(* OuterHandler without line 317 *)
OuterHandlerKeepsMerged(ss, at, warned) ==
    Result(ss, "unexpected", at, warned, None)

(* Lines 314-317 *)
OuterHandler(ss, at, warned) ==
    Result([ss EXCEPT !.merged = None], "unexpected", at, warned, None)

RaiseOuter(ss, point, warned) ==
    IF Handler(point) = "outer" THEN OuterHandler(ss, point, warned)
    ELSE Result(ss, "propagated", point, warned, None)

(* Lines 309-313.  st.error and logging.error come first and may raise;    *)
(* line 313 reads current_params and raises NameError when it is unbound.  *)
InnerHandler(ss, point, cp, env, warned) ==
    IF "inner_handler" \in env.exc THEN RaiseOuter(ss, "inner_handler", warned)
    ELSE LET s1 == [ss EXCEPT !.merged = None]
         IN  IF cp = Unbound THEN RaiseOuter(s1, "inner_handler", warned)
             ELSE Result([s1 EXCEPT !.last_params = cp[1]],
                         "processing_error", point, warned, None)

Raise(ss, point, cp, env, warned) ==
    IF Handler(point) = "inner" THEN InnerHandler(ss, point, cp, env, warned)
    ELSE RaiseOuter(ss, point, warned)

(* Store without line 299 *)
StoreWithoutSpot(ss, merged, spot, t, e, st, r, cp, env, warned) ==
    LET s1 == [ss EXCEPT !.merged = Some(merged)]
        s3 == [s1 EXCEPT !.ticker = t]
        s4 == [s3 EXCEPT !.last_params = Params(t, e, st, r)]
    IN  IF "store_merged" \in env.exc THEN Raise(ss, "store_merged", cp, env, warned)
        ELSE IF "store_spot" \in env.exc THEN Raise(s1, "store_spot", cp, env, warned)
        ELSE IF "store_ticker" \in env.exc THEN Raise(s1, "store_ticker", cp, env, warned)
        ELSE IF "store_params" \in env.exc THEN Raise(s3, "store_params", cp, env, warned)
        ELSE Result(s4, "stored", "", warned, Some(Len(merged)))

(* Store that leaves the result slot alone when the table has no rows *)
StoreKeepsOnEmpty(ss, merged, spot, t, e, st, r, cp, env, warned) ==
    LET s1 == [ss EXCEPT !.merged = IF merged = <<>> THEN ss.merged ELSE Some(merged)]
        s2 == [s1 EXCEPT !.spot = IF merged = <<>> THEN ss.spot ELSE Some(spot)]
        s3 == [s2 EXCEPT !.ticker = IF merged = <<>> THEN ss.ticker ELSE t]
        s4 == [s3 EXCEPT !.last_params = Params(t, e, st, r)]
    IN  IF "store_merged" \in env.exc THEN Raise(ss, "store_merged", cp, env, warned)
        ELSE IF "store_spot" \in env.exc THEN Raise(s1, "store_spot", cp, env, warned)
        ELSE IF "store_ticker" \in env.exc THEN Raise(s2, "store_ticker", cp, env, warned)
        ELSE IF "store_params" \in env.exc THEN Raise(s3, "store_params", cp, env, warned)
        ELSE Result(s4, "stored", "", warned, Some(Len(merged)))

(* Lines 298-308, one assignment after the other *)
Store(ss, merged, spot, t, e, st, r, cp, env, warned) ==
    LET s1 == [ss EXCEPT !.merged = Some(merged)]
        s2 == [s1 EXCEPT !.spot = Some(spot)]
        s3 == [s2 EXCEPT !.ticker = t]
        s4 == [s3 EXCEPT !.last_params = Params(t, e, st, r)]
    IN  IF "store_merged" \in env.exc THEN Raise(ss, "store_merged", cp, env, warned)
        ELSE IF "store_spot" \in env.exc THEN Raise(s1, "store_spot", cp, env, warned)
        ELSE IF "store_ticker" \in env.exc THEN Raise(s2, "store_ticker", cp, env, warned)
        ELSE IF "store_params" \in env.exc THEN Raise(s3, "store_params", cp, env, warned)
        ELSE Result(s4, "stored", "", warned, Some(Len(merged)))

(* Lines 261-313 *)
Process(ss, spot, t, e, st, r, cp, env) ==
    LET calls == env.calls
        puts == env.puts
        lo == min_strike(spot, r)
        hi == max_strike(spot, r)
        calls_filtered == WindowFilter(calls, lo, hi)
        puts_filtered == WindowFilter(puts, lo, hi)
        warned == RangeWarning(calls_filtered, puts_filtered)
    IN  IF calls = <<>> \/ puts = <<>>
        THEN LET s1 == [ss EXCEPT !.merged = None]
             IN  IF cp = Unbound THEN Raise(s1, "window", cp, env, FALSE)
                 ELSE Result([s1 EXCEPT !.last_params = cp[1]],
                             "empty_chain", "", FALSE, None)
        ELSE IF "window" \in env.exc THEN Raise(ss, "window", cp, env, FALSE)
        ELSE IF "merge" \in env.exc THEN Raise(ss, "merge", cp, env, warned)
        ELSE Store(ss, MergeFiltered(calls_filtered, puts_filtered, st),
                   spot, t, e, st, r, cp, env, warned)

(* Lines 224-259 *)
Chain(ss, spot, t, e, st, r, cp, env) ==
    IF "chain" \in env.exc THEN Raise(ss, "chain", cp, env, FALSE)
    ELSE IF env.error # None
    THEN Result([ss EXCEPT !.merged = None, !.last_params = Params(t, e, st, r)],
                "chain_error", "", FALSE, None)
    ELSE Process(ss, spot, t, e, st, r, cp, env)

(* Lines 211-317: the session state a cycle leaves and how it ended *)
fetch_data(ss, t, e, st, r, cp, env) ==
    IF "spot" \in env.exc THEN Raise(ss, "spot", cp, env, FALSE)
    ELSE IF env.spot = None
    THEN LET s1 == [ss EXCEPT !.merged = None]
         IN  IF cp = Unbound THEN Raise(s1, "spot", cp, env, FALSE)
             ELSE Result([s1 EXCEPT !.last_params = cp[1]], "no_price", "", FALSE, None)
    ELSE Chain(ss, env.spot[1], t, e, st, r, cp, env)

-----------------------------------------------------------------------------
(* The market data provider, as fetch_data sees it *)

(* get_stock_spot, lines 26-42: the last close, or None *)
get_stock_spot == {None} \cup {Some(s) : s \in Spots}

(* fetch_option_chain, lines 44-83: an error dict in place of the frames    *)
(* when either frame is empty (line 55), when the expiration cannot be     *)
(* found (line 67) and on any other exception (line 83).                   *)
ChainErrors == {"empty_chain", "invalid_expiration", "fetch_error"}

SampleChains ==
    {<<CallsOf(<<4>>), PutsOf(<<4>>)>>,
     <<CallsOf(<<0>>), PutsOf(<<4>>)>>,
     <<CallsOf(<<3>>), PutsOf(<<3>>)>>}

(* The places where an unexpected exception is raised in one cycle: none,  *)
(* one, or one in the merge and one more in its handler.                   *)
ExcChoices ==
    {{}} \cup {{p} : p \in OuterTry} \cup {{"merge", "inner_handler"}}

Env(spot, error, calls, puts, exc) ==
    [spot |-> spot, error |-> error, calls |-> calls, puts |-> puts, exc |-> exc]

Envs ==
    {Env(None, None, <<>>, <<>>, x) : x \in {{}, {"spot"}}}
    \cup {Env(Some(s), Some(k), <<>>, <<>>, x) :
             s \in Spots, k \in ChainErrors, x \in {{}, {"spot"}, {"chain"}}}
    \cup {Env(Some(s), None, ch[1], ch[2], x) :
             s \in Spots, ch \in SampleChains, x \in ExcChoices}

-----------------------------------------------------------------------------
(* The script, lines 181-374, one run per user interaction *)

step == 1

EmptyDict == [k \in {} |-> None]

Get(d, k) == IF k \in DOMAIN d THEN Some(d[k]) ELSE None

NoInput == [calls |-> <<>>, puts |-> <<>>, spot |-> 0, range |-> 0, step |-> 0]

(* The first run: the widgets at their defaults, the button not pressed,   *)
(* and lines 201-208 done.  The script stands at line 320.                 *)
Init ==
    /\ session_state = [merged |-> None, spot |-> None, ticker |-> "SPY",
                        last_params |-> EmptyDict]
    /\ ticker = "SPY"
    /\ expiration \in Expirations
    /\ range_above_below = 1
    /\ fetch_button = FALSE
    /\ current_params = Unbound
    /\ pc = "button_check"
    /\ fetch_calls = 0
    /\ last_fetch = None
    /\ merged_src = None
    /\ cycle = None
    /\ agg_in = NoInput
    /\ agg_out = None

(* A user interaction reruns the script from the top, in a fresh namespace, *)
(* with the widgets' new values; lines 201-208 find their keys present.    *)
StartRun ==
    /\ pc \in {"idle", "crashed"}
    /\ ticker' \in Tickers
    /\ expiration' \in Expirations
    /\ range_above_below' \in Ranges
    /\ fetch_button' \in BOOLEAN
    /\ current_params' = Unbound
    /\ pc' = "button_check"
    /\ fetch_calls' = 0
    /\ cycle' = None
    /\ UNCHANGED <<session_state, last_fetch, merged_src, agg_in, agg_out>>

(* One call of fetch_data with the widgets' values, from trigger `by` *)
Invoke(by, env, next_pc) ==
    LET res == fetch_data(session_state, ticker, expiration, step,
                          range_above_below, current_params, env)
        args == Params(ticker, expiration, step, range_above_below)
    IN  /\ session_state' = res.ss
        /\ fetch_calls' = fetch_calls + 1
        /\ last_fetch' = Some(args)
        /\ merged_src' = IF res.ss.merged = None THEN None
                         ELSE IF res.outcome = "stored"
                                 \/ res.ss.merged # session_state.merged
                         THEN Some([ticker |-> ticker, spot |-> env.spot])
                         ELSE merged_src
        /\ cycle' = Some([trigger |-> by, params |-> args,
                          before |-> [merged |-> session_state.merged,
                                      spot |-> session_state.spot,
                                      ticker |-> session_state.ticker],
                          prev_fetch |-> last_fetch, spot |-> env.spot,
                          error |-> env.error, calls |-> env.calls, puts |-> env.puts,
                          outcome |-> res.outcome, at |-> res.at,
                          warned |-> res.warned,
                          rows |-> res.rows])
        /\ pc' = IF res.outcome = "propagated" THEN "crashed" ELSE next_pc
        /\ UNCHANGED <<ticker, expiration, range_above_below, fetch_button,
                       current_params, agg_in, agg_out>>

(* Lines 320-321 *)
ButtonFetch ==
    /\ pc = "button_check"
    /\ fetch_button
    /\ \E env \in Envs : Invoke("button", env, "bind_params")

ButtonSkip ==
    /\ pc = "button_check"
    /\ ~fetch_button
    /\ pc' = "bind_params"
    /\ UNCHANGED <<session_state, ticker, expiration, range_above_below, fetch_button,
                   current_params, fetch_calls, last_fetch, merged_src, cycle,
                   agg_in, agg_out>>

(* Lines 324-329 *)
BindParams ==
    /\ pc = "bind_params"
    /\ current_params' = Some(Params(ticker, expiration, step, range_above_below))
    /\ pc' = "auto_check"
    /\ cycle' = None
    /\ UNCHANGED <<session_state, ticker, expiration, range_above_below, fetch_button,
                   fetch_calls, last_fetch, merged_src, agg_in, agg_out>>

(* Lines 332-335 *)
ParamsChanged(last_params, cp, t, e, r) ==
    /\ last_params # cp
    /\ \/ Get(last_params, "ticker") # Some(t)
       \/ Get(last_params, "expiration") # Some(e)
       \/ Get(last_params, "range_above_below") # Some(r)

(* Line 336 *)
AutoFetch ==
    /\ pc = "auto_check"
    /\ ParamsChanged(session_state.last_params, current_params[1],
                     ticker, expiration, range_above_below)
    /\ \E env \in Envs : Invoke("auto", env, "render")

AutoSkip ==
    /\ pc = "auto_check"
    /\ ~ParamsChanged(session_state.last_params, current_params[1],
                      ticker, expiration, range_above_below)
    /\ pc' = "render"
    /\ UNCHANGED <<session_state, ticker, expiration, range_above_below, fetch_button,
                   current_params, fetch_calls, last_fetch, merged_src, cycle,
                   agg_in, agg_out>>

(* Lines 339-374: the chart and the table of merged, or the placeholders *)
Render ==
    /\ pc = "render"
    /\ pc' = "idle"
    /\ cycle' = None
    /\ UNCHANGED <<session_state, ticker, expiration, range_above_below, fetch_button,
                   current_params, fetch_calls, last_fetch, merged_src, agg_in, agg_out>>

Next ==
    \/ StartRun
    \/ ButtonFetch
    \/ ButtonSkip
    \/ BindParams
    \/ AutoFetch
    \/ AutoSkip
    \/ Render

Spec == Init /\ [][Next]_vars

-----------------------------------------------------------------------------
(* The aggregation of lines 262-296 on its own *)

InitAgg ==
    /\ session_state = [merged |-> None, spot |-> None, ticker |-> "SPY",
                        last_params |-> EmptyDict]
    /\ ticker = "SPY"
    /\ expiration = "d1"
    /\ range_above_below = 1
    /\ fetch_button = FALSE
    /\ current_params = Unbound
    /\ pc = "aggregate"
    /\ fetch_calls = 0
    /\ last_fetch = None
    /\ merged_src = None
    /\ cycle = None
    /\ \E cs \in StrikeSeqs, ps \in StrikeSeqs, sp \in AggSpots, r \in Ranges, st \in Steps :
          agg_in = [calls |-> CallsOf(cs), puts |-> PutsOf(ps),
                    spot |-> sp, range |-> r, step |-> st]
    /\ agg_out = None

RunAggregate ==
    /\ pc = "aggregate"
    /\ agg_out = None
    /\ agg_out' = Some(Aggregate(agg_in.calls, agg_in.puts, agg_in.spot,
                                 agg_in.range, agg_in.step))
    /\ UNCHANGED <<session_state, ticker, expiration, range_above_below, fetch_button,
                   current_params, pc, fetch_calls, last_fetch, merged_src, cycle,
                   agg_in>>

NextAgg == RunAggregate

SpecAgg == InitAgg /\ [][NextAgg]_vars

-----------------------------------------------------------------------------
(* Properties of the aggregation, under SpecAgg *)

InWindow(s, spot, range) ==
    /\ s >= 0
    /\ s >= spot - 2 * range
    /\ s <= spot + 2 * range

(* s is a whole multiple of st dollars *)
Divides(st, s) == \E n \in 0..s : s = n * (2 * st)

Surviving(in) ==
    {s \in StrikesOf(in.calls) \cup StrikesOf(in.puts) :
        InWindow(s, in.spot, in.range) /\ Divides(in.step, s)}

DistinctStrikes(rows) ==
    \A i, j \in 1..Len(rows) : rows[i].strike = rows[j].strike => i = j

(* The open interest a table holds at strike s, 0 if it has no row there *)
InterestAt(rows, s) ==
    IF s \in StrikesOf(rows)
    THEN LET i == CHOOSE n \in 1..Len(rows) : rows[n].strike = s
         IN  rows[i].openInterest
    ELSE 0

(* C1: the strikes of the aggregated table are exactly the strikes of some *)
(* call row or put row that lie in [max(0, spot - range), spot + range],   *)
(* ends included, and are multiples of step.                               *)
C1_UnionCompleteness ==
    agg_out # None => StrikesOf(agg_out[1]) = Surviving(agg_in)

(* The window drops a strike, the step drops another, and a strike of one  *)
(* table only is kept.                                                     *)
C1_Witness ==
    /\ agg_out # None
    /\ \E s \in StrikesOf(agg_in.calls) \cup StrikesOf(agg_in.puts) :
          ~InWindow(s, agg_in.spot, agg_in.range)
    /\ \E s \in StrikesOf(agg_in.calls) \cup StrikesOf(agg_in.puts) :
          InWindow(s, agg_in.spot, agg_in.range) /\ ~Divides(agg_in.step, s)
    /\ \E s \in StrikesOf(agg_out[1]) :
          s \in StrikesOf(agg_in.calls) /\ s \notin StrikesOf(agg_in.puts)

(* C2: no two rows of the aggregated table have the same strike, whether   *)
(* or not the rows of an input table have distinct strikes.                *)
C2_UniqueOutputStrikes ==
    agg_out # None => DistinctStrikes(agg_out[1])

(* C3: when each input table has at most one row per strike, a row at s    *)
(* has the open interest of the call row at s, or 0, as call_oi, that of   *)
(* the put row at s, or 0, as put_oi, and their difference as delta.       *)
C3_RowContent ==
    (agg_out # None /\ DistinctStrikes(agg_in.calls) /\ DistinctStrikes(agg_in.puts))
    => \A i \in 1..Len(agg_out[1]) :
         LET row == agg_out[1][i]
             c == InterestAt(agg_in.calls, row.strike)
             p == InterestAt(agg_in.puts, row.strike)
         IN  /\ row.call_oi = c
             /\ row.put_oi = p
             /\ row.delta = c - p

(* A table with a strike of both sides, one of the calls only and one of   *)
(* the puts only.                                                          *)
C3_Witness ==
    /\ agg_out # None
    /\ DistinctStrikes(agg_in.calls)
    /\ DistinctStrikes(agg_in.puts)
    /\ \E i, j, k \in 1..Len(agg_out[1]) :
          /\ agg_out[1][i].call_oi > 0 /\ agg_out[1][i].put_oi > 0
          /\ agg_out[1][j].call_oi > 0 /\ agg_out[1][j].put_oi = 0
          /\ agg_out[1][k].call_oi = 0 /\ agg_out[1][k].put_oi > 0

-----------------------------------------------------------------------------
(* Properties of the fetch cycle and of the script, under Spec.            *)
(* cycle is not None in the state a call of fetch_data returns to, and     *)
(* describes that call.                                                    *)

Failed(c) ==
    \/ c.spot = None
    \/ c.error # None
    \/ c.outcome \in {"no_price", "chain_error", "empty_chain",
                      "processing_error", "unexpected"}

(* C4: after a cycle that ends in no price data, a retrieval error, an     *)
(* empty chain or an exception, merged is None, whatever it held before    *)
(* and whichever trigger started the cycle.                                *)
C4_ErrorsClearSlot ==
    (cycle # None /\ Failed(cycle[1])) => session_state.merged = None

(* A button-triggered cycle without price data, entered with a table held *)
C4_Witness ==
    /\ cycle # None
    /\ cycle[1].trigger = "button"
    /\ cycle[1].spot = None
    /\ cycle[1].before.merged # None
    /\ session_state.merged = None

(* A cycle that got both frames, stored its table, and the table is empty *)
EmptyAfterWindowing(c) ==
    /\ c.spot # None
    /\ c.error = None
    /\ c.calls # <<>>
    /\ c.puts # <<>>
    /\ c.outcome = "stored"
    /\ c.rows = Some(0)

(* C5 as claimed: a cycle whose filtering leaves no rows leaves the table  *)
(* held before it, and the spot and ticker of the session, as they were.   *)
C5_EmptyKeepsPrevious ==
    (cycle # None /\ EmptyAfterWindowing(cycle[1]) /\ cycle[1].before.merged # None)
    => /\ session_state.merged = cycle[1].before.merged
       /\ session_state.spot = cycle[1].before.spot
       /\ session_state.ticker = cycle[1].before.ticker

(* C5 as amended: such a cycle does not set merged to None; it stores its  *)
(* empty table, its spot and its ticker in place of what was held.         *)
C5_EmptyReplacesPrevious ==
    (cycle # None /\ EmptyAfterWindowing(cycle[1]))
    => /\ session_state.merged = Some(<<>>)
       /\ session_state.spot = cycle[1].spot
       /\ session_state.ticker = cycle[1].params.ticker

(* Such a cycle, entered with a table of some rows from another ticker *)
C5_Witness ==
    /\ cycle # None
    /\ EmptyAfterWindowing(cycle[1])
    /\ cycle[1].before.merged # None
    /\ cycle[1].before.merged # Some(<<>>)
    /\ cycle[1].before.ticker # cycle[1].params.ticker
    /\ session_state.merged = Some(<<>>)

(* C6: fetch_data is invoked at most once in a run of the script *)
C6_AtMostOneCyclePerRun ==
    fetch_calls <= 1

(* C7: a run without a button press invokes fetch_data only if ticker,     *)
(* expiration or range differ from those of the latest invocation.         *)
C7_AutoFetchOnlyOnChange ==
    (cycle # None /\ cycle[1].trigger = "auto" /\ ~fetch_button)
    => cycle[1].prev_fetch # Some(cycle[1].params)

(* C8: fetch_data returns to the script whatever is raised inside it *)
C8_NoFailureEscapes ==
    /\ pc # "crashed"
    /\ cycle # None => cycle[1].outcome # "propagated"

(* A button-triggered cycle whose merge raised and whose inner handler     *)
(* raised in turn, returned to line 324.                                   *)
C8_Witness ==
    /\ cycle # None
    /\ cycle[1].trigger = "button"
    /\ cycle[1].at = "inner_handler"
    /\ cycle[1].outcome = "unexpected"
    /\ pc = "bind_params"

(* Whether a table has a row in the window of the cycle *)
NoneInWindow(rows, c) ==
    \A s \in StrikesOf(rows) : ~InWindow(s, c.spot[1], c.params.range_above_below)

(* C9 as claimed: in a cycle that got both frames and stored its table,    *)
(* the range warning is shown exactly when the table has no rows.          *)
C9_WarningIffNoRows ==
    (cycle # None /\ cycle[1].outcome = "stored")
    => (cycle[1].warned <=> cycle[1].rows = Some(0))

(* C9 as amended: the warning is shown exactly when the calls or the puts  *)
(* have no strike in the window, whatever the step leaves and whatever the *)
(* other side holds.                                                       *)
C9_WarningIffSideEmpty ==
    (cycle # None /\ cycle[1].outcome = "stored")
    => (cycle[1].warned <=>
           (NoneInWindow(cycle[1].calls, cycle[1]) \/ NoneInWindow(cycle[1].puts, cycle[1])))

(* A warning beside a table that has rows *)
C9_Witness ==
    /\ cycle # None
    /\ cycle[1].outcome = "stored"
    /\ cycle[1].warned
    /\ cycle[1].rows # Some(0)
    /\ NoneInWindow(cycle[1].calls, cycle[1])
    /\ ~NoneInWindow(cycle[1].puts, cycle[1])

(* C10: outside a fetch cycle, a merged that is not None comes with the    *)
(* spot and the ticker of the cycle that stored it.                        *)
C10_SlotConsistency ==
    session_state.merged # None
    => merged_src = Some([ticker |-> session_state.ticker, spot |-> session_state.spot])

(* The chart is drawn from a table of an earlier run, of the other ticker  *)
(* than the default, after a run that fetched nothing.                     *)
C10_Witness ==
    /\ pc = "render"
    /\ fetch_calls = 0
    /\ session_state.merged # None
    /\ session_state.merged # Some(<<>>)
    /\ session_state.ticker = "QQQ"
    /\ session_state.spot = Some(1)

====
